---- MODULE Spec2Model ----
(***************************************************************************)
(* A model of the DriftBalloon SDK client (driftballoon/client.py): the    *)
(* delivery queue and its flush pass, the configuration cache and its sync *)
(* pass, the background worker, and the facade operations start, stop,     *)
(* submit and invoke.                                                      *)
(*                                                                         *)
(* Threads: Main (0) calls the lifecycle operations, User calls            *)
(* log(...).submit() and log(...).invoke(), and each worker slot           *)
(* 1..MaxWorkers holds one threading.Thread running _background_worker.    *)
(* A QueuedLog object is its identity (a number, in order of creation);    *)
(* its retry_count field lives in retry_count[id], so that every list      *)
(* that holds the object sees the same field.                              *)
(***************************************************************************)
EXTENDS Integers, Sequences, FiniteSets, TLC

\* ------------------------------------------------------------ bounds
\* submit() calls in one behaviour
MaxSubmits == 2
\* thread slots for _background_worker
MaxWorkers == 2
\* submit() calls in one behaviour of SpecLife
LifeSubmits == 1
\* the longest queue SpecCap starts from
MaxInit == 52
\* the longest script of the transport in SpecCap
MaxScript == 2
\* direct calls of _flush_logs in one behaviour of SpecCap
MaxCalls == 5
\* stop() calls in one behaviour of SpecStop
MaxStops == 2

\* ------------------------------------------------- program constants
MAX_BATCH_SIZE == 50
BATCH_POST_SIZE == 10
max_retries == 5

\* A transport-level exception instead of a response
EXC == 0
\* Status codes the transport can answer with, and EXC
Outcomes == {200, 201, 202, 429, 500, EXC}

Main == 0
Workers == 1..MaxWorkers
Flushers == {Main} \cup Workers
\* self._sync_thread is None
NoThread == 0

VARIABLES
    log_queue,      \* self._log_queue: the QueuedLog objects, front first
    retry_count,    \* retry_count[id]: the field of QueuedLog id
    config_cache,   \* self._config_cache: name -> PromptConfig
    running,        \* self._running
    sync_thread,    \* self._sync_thread: a worker slot, or NoThread
    http_client,    \* self._http_client: "none" or "open"
    pc,             \* pc[t]: where thread t of Flushers stands
    stopping,       \* Main is inside stop()
    to_process,     \* to_process[t]: local of _flush_logs
    remaining,      \* remaining[t]: local of _flush_logs
    idx,            \* idx[t]: the loop variable i of _flush_logs
    upc,            \* where the User thread stands
    inv_outcome,    \* what the transport answered to the pending invoke()
    inv_posts,      \* the request bodies the pending invoke() has issued
    answers,        \* answers[t]: the answers to the requests of t's flush pass so far
    taken_rc,       \* taken_rc[t]: the retry_count of each entry of to_process[t] at checkout
    posts,          \* posts[t]: the bodies of the requests t's flush pass has issued so far
    server,         \* the answers a scripted transport gives, next first (SpecCap)
    calls,          \* direct calls of _flush_logs by Main so far (SpecCap)
    delivered,      \* delivered[id]: a request holding id was answered 200/201/202
    fails,          \* fails[id]: sends of id answered with a failure other than 429
    scope,          \* where Main stands in "with DriftBalloon(...) as db:" (SpecScope)
    stop_entry,     \* what the current stop() found when it was called (SpecStop)
    config_reply,   \* what the server answers to the next GET /api/v1/config (SpecConfig)
    seen,           \* the (status, count) pairs the object being read has held since the lookup
    rpc,            \* where the Reader thread stands in a facade query
    r_config,       \* the Reader's local "config": the name of the cached object, or NotFound
    r_status,       \* config.baseline_status as the Reader has read it
    r_pair,         \* what get_baseline_status has returned
    r_active,       \* what get_active_prompt has returned
    locks           \* locks[l]: the thread inside "with" of _queue_lock, _config_lock (SpecLock)

vars == <<log_queue, retry_count, config_cache, running, sync_thread,
          http_client, pc, stopping, to_process, remaining, idx, upc,
          inv_outcome, inv_posts, answers, taken_rc, posts, server, calls,
          delivered, fails, scope, stop_entry, config_reply, seen,
          rpc, r_config, r_status, r_pair, r_active, locks>>

\* ------------------------------------------------------------ helpers
Min(a, b) == IF a < b THEN a ELSE b

\* Take without the cap
TakeAll(s, n) == s

\* s[:n]
Take(s, n) == SubSeq(s, 1, Min(n, Len(s)))

\* Drop that keeps the whole list
DropNothing(s, n) == s

\* s[n:]
Drop(s, n) == SubSeq(s, Min(n, Len(s)) + 1, Len(s))

Elems(s) == {s[k] : k \in 1..Len(s)}

\* response.status_code in (200, 201, 202)
IsSuccess(o) == o \in {200, 201, 202}

\* ------------------------------------------------ configuration cache
\* PromptConfig(name=name) with the dataclass defaults; the two float
\* thresholds 0.7 and 1.5 are written in tenths
PromptConfig(name) ==
    [name |-> name, active_prompt |-> "a", baseline_status |-> "learning",
     baseline_sample_count |-> 0, min_baseline_samples |-> 30,
     drift_threshold |-> 7, length_drift_threshold |-> 15,
     auto_switch_enabled |-> TRUE, status |-> "active"]

\* config_data.get(f, default)
Get(config_data, f, default) ==
    IF f \in DOMAIN config_data THEN config_data[f] ELSE default

\* UpdateExisting that replaces the object: a field the server left out
\* falls back to its default
UpdateExistingReplaces(existing, config_data) ==
    [name |-> existing.name,
     active_prompt |-> Get(config_data, "active_prompt", "a"),
     baseline_status |-> Get(config_data, "baseline_status", "learning"),
     baseline_sample_count |-> Get(config_data, "baseline_sample_count", 0),
     min_baseline_samples |-> Get(config_data, "min_baseline_samples", 30),
     drift_threshold |-> Get(config_data, "drift_threshold", 7),
     length_drift_threshold |-> Get(config_data, "length_drift_threshold", 15),
     auto_switch_enabled |-> Get(config_data, "auto_switch_enabled", TRUE),
     status |-> Get(config_data, "status", "active")]

\* The branch "Update existing cached prompt" of _sync_config
UpdateExisting(existing, config_data) ==
    [name |-> existing.name,
     active_prompt |-> Get(config_data, "active_prompt", existing.active_prompt),
     baseline_status |-> Get(config_data, "baseline_status", existing.baseline_status),
     baseline_sample_count |->
         Get(config_data, "baseline_sample_count", existing.baseline_sample_count),
     min_baseline_samples |->
         Get(config_data, "min_baseline_samples", existing.min_baseline_samples),
     drift_threshold |-> Get(config_data, "drift_threshold", existing.drift_threshold),
     length_drift_threshold |->
         Get(config_data, "length_drift_threshold", existing.length_drift_threshold),
     auto_switch_enabled |->
         Get(config_data, "auto_switch_enabled", existing.auto_switch_enabled),
     status |-> Get(config_data, "status", existing.status)]

\* NewConfig that ignores what the server sent
NewConfigIgnoresData(name, config_data) == PromptConfig(name)

\* The branch "Add new prompt to cache" of _sync_config
NewConfig(name, config_data) ==
    [name |-> name,
     active_prompt |-> Get(config_data, "active_prompt", "a"),
     baseline_status |-> Get(config_data, "baseline_status", "learning"),
     baseline_sample_count |-> Get(config_data, "baseline_sample_count", 0),
     min_baseline_samples |-> Get(config_data, "min_baseline_samples", 30),
     drift_threshold |-> Get(config_data, "drift_threshold", 7),
     length_drift_threshold |-> Get(config_data, "length_drift_threshold", 15),
     auto_switch_enabled |-> Get(config_data, "auto_switch_enabled", TRUE),
     status |-> Get(config_data, "status", "active")]

\* The loop "for name, config_data in prompts.items()" under _config_lock.
\* prompts is the sequence of the items in the dict's order; an item is
\* [name, is_dict, data], and config_data.get raises on an item that is no
\* dict: the loop ends there and the updates made so far stay.
RECURSIVE MergePrompts(_, _)
MergePrompts(cache, prompts) ==
    IF prompts = <<>> THEN cache
    ELSE LET item == Head(prompts)
         IN  IF ~item.is_dict THEN cache
             ELSE IF item.name \in DOMAIN cache
                  THEN MergePrompts(
                           [cache EXCEPT ![item.name] = UpdateExisting(@, item.data)],
                           Tail(prompts))
                  ELSE MergePrompts(
                           (item.name :> NewConfig(item.name, item.data)) @@ cache,
                           Tail(prompts))

\* SyncApply that builds the cache anew from each good response
SyncApplyReplaces(cache, r) ==
    IF r.status = 200 /\ r.json_ok THEN MergePrompts([x \in {} |-> 0], r.prompts) ELSE cache

\* What one _sync_config pass makes of the cache, for the reply r =
\* [status, json_ok, prompts]: status is EXC when http_client.get raised,
\* json_ok is whether response.json() gave a dict
SyncApply(cache, r) ==
    IF r.status = 200 /\ r.json_ok THEN MergePrompts(cache, r.prompts) ELSE cache

\* self._config_cache = {}
EmptyCache == [x \in {} |-> 0]

\* The replies of GET /api/v1/config the model draws from

SyncReplies ==
    { [status |-> EXC, json_ok |-> FALSE, prompts |-> <<>>],
      [status |-> 500, json_ok |-> TRUE, prompts |-> <<>>],
      [status |-> 200, json_ok |-> FALSE, prompts |-> <<>>],
      [status |-> 200, json_ok |-> TRUE, prompts |-> <<>>],
      [status |-> 200, json_ok |-> TRUE,
       prompts |-> << [name |-> "p1", is_dict |-> TRUE,
                       data |-> [active_prompt |-> "b"]] >>] }

\* The two threading.Lock objects of the client
LockNames == {"queue", "config"}

\* The holder of a lock nobody holds, and the callers' threads: the one
\* that submits and invokes, and the one that queries
Nobody == 0 - 1
User == 0 - 2
Reader == 0 - 3

\* get_active_prompt's "not found": None
NotFound == "None"

\* No facade query in progress, no scope entered, no stop() called yet, a
\* server that cannot be reached, and both locks free
AuxInit ==
    /\ scope = "out"
    /\ stop_entry = [n |-> 0, queue |-> <<>>, rc |-> <<>>]
    /\ config_reply = [status |-> EXC, json_ok |-> FALSE, prompts |-> <<>>]
    /\ seen = {}
    /\ rpc = "idle"
    /\ r_config = NotFound
    /\ r_status = ""
    /\ r_pair = <<>>
    /\ r_active = ""
    /\ locks = [l \in LockNames |-> Nobody]

\* ------------------------------------------------------ initial state
\* DriftBalloon(api_key), auto_start=True: __init__ has called start();
\* nothing queued, nothing cached, the worker thread in slot 1 about to
\* test the flag, no transport handle yet
Init ==
    /\ log_queue = <<>>
    /\ retry_count = <<>>
    /\ config_cache = EmptyCache
    /\ running = TRUE
    /\ sync_thread = 1
    /\ http_client = "none"
    /\ pc = [t \in Flushers |-> IF t = Main THEN "ready" ELSE IF t = 1 THEN "loop" ELSE "dead"]
    /\ stopping = FALSE
    /\ to_process = [t \in Flushers |-> <<>>]
    /\ remaining = [t \in Flushers |-> <<>>]
    /\ idx = [t \in Flushers |-> 0]
    /\ upc = "ready"
    /\ inv_outcome = EXC
    /\ inv_posts = <<>>
    /\ answers = [t \in Flushers |-> <<>>]
    /\ taken_rc = [t \in Flushers |-> <<>>]
    /\ posts = [t \in Flushers |-> <<>>]
    /\ server = <<>>
    /\ calls = 0
    /\ delivered = <<>>
    /\ fails = <<>>
    /\ AuxInit

queueVars == <<log_queue, retry_count>>
flushLocals == <<to_process, remaining, idx, answers, taken_rc, posts>>
userVars == <<upc, inv_outcome, inv_posts>>
ghostVars == <<delivered, fails>>
lifeVars == <<running, sync_thread, stopping>>
capVars == <<server, calls>>
readVars == <<rpc, r_config, r_status, r_pair, r_active>>
sideVars == <<scope, stop_entry, config_reply, seen, readVars>>
auxVars == <<sideVars, locks>>

\* ---------------------------------------------------------- _flush_logs
\* Where _flush_logs returns to: the worker's loop (time.sleep, then the
\* while test), stop()'s release of the transport, or a direct caller
FlushReturn(t) ==
    IF t \in Workers THEN "loop" ELSE IF stopping THEN "close" ELSE "ready"

\* Batch whose slice ends one entry late
BatchOneMore(t) ==
    SubSeq(to_process[t], idx[t] + 1, Min(idx[t] + BATCH_POST_SIZE + 1, Len(to_process[t])))

\* batch = to_process[i:i + BATCH_POST_SIZE]
Batch(t) == SubSeq(to_process[t], idx[t] + 1, Min(idx[t] + BATCH_POST_SIZE, Len(to_process[t])))

\* Bumped that leaves the counts as they are
BumpedNot(rc, batch) == rc

\* item.retry_count += 1 for every item of the batch
Bumped(rc, batch) ==
    [id \in DOMAIN rc |-> IF id \in Elems(batch) THEN rc[id] + 1 ELSE rc[id]]

\* Requeued with the test off by one: "<=" for "<"
RequeuedOffByOne(rc, batch) == SelectSeq(batch, LAMBDA id : rc[id] <= max_retries)

\* Requeued that puts each entry before the ones put aside so far
\* (remaining.insert(0, item))
RequeuedReversed(rc, batch) ==
    LET keep == SelectSeq(batch, LAMBDA id : rc[id] < max_retries)
    IN  [k \in 1..Len(keep) |-> keep[Len(keep) + 1 - k]]

\* Requeued that gives every failed entry up
RequeuedNothing(rc, batch) == <<>>

\* if item.retry_count < item.max_retries: remaining.append(item)
Requeued(rc, batch) == SelectSeq(batch, LAMBDA id : rc[id] < max_retries)

\* RateLimited that forgets the batch
RateLimitedForgets(rem, batch) == rem

\* "Rate limited - re-queue batch": remaining.extend(batch)
RateLimited(rem, batch) == rem \o batch

\* Prepend that loses the entries to re-queue
PrependNothing(rem, queue) == queue

\* Prepend that puts the entries to re-queue in twice
PrependTwice(rem, queue) == rem \o rem \o queue

\* Prepend that appends
PrependAtBack(rem, queue) == queue \o rem

\* self._log_queue = remaining + self._log_queue, if remaining
Prepend(rem, queue) == IF rem # <<>> THEN rem \o queue ELSE queue

\* with self._queue_lock: take the first MAX_BATCH_SIZE entries; return
\* at once when there is none
FlushTake(t) ==
    /\ pc[t] = "fl_take"
    /\ log_queue' = Drop(log_queue, MAX_BATCH_SIZE)
    /\ IF Take(log_queue, MAX_BATCH_SIZE) = <<>>
       THEN /\ pc' = [pc EXCEPT ![t] = FlushReturn(t)]
            /\ UNCHANGED flushLocals
       ELSE /\ pc' = [pc EXCEPT ![t] = "fl_post"]
            /\ to_process' = [to_process EXCEPT ![t] = Take(log_queue, MAX_BATCH_SIZE)]
            /\ remaining' = [remaining EXCEPT ![t] = <<>>]
            /\ idx' = [idx EXCEPT ![t] = 0]
            /\ answers' = [answers EXCEPT ![t] = <<>>]
            /\ taken_rc' = [taken_rc EXCEPT ![t] =
                               [k \in 1..Len(to_process'[t]) |-> retry_count[to_process'[t][k]]]]
            /\ posts' = [posts EXCEPT ![t] = <<>>]
    /\ UNCHANGED <<retry_count, config_cache, http_client, lifeVars, userVars, ghostVars>>
    /\ UNCHANGED capVars
    /\ UNCHANGED auxVars

\* self.http_client.post(...): the handle is made on first use and the
\* request of the current batch goes out, with json={"logs": [item.data
\* for item in batch]}
FlushPost(t) ==
    /\ pc[t] = "fl_post"
    /\ pc' = [pc EXCEPT ![t] = "fl_wait"]
    /\ http_client' = "open"
    /\ posts' = [posts EXCEPT ![t] = Append(@, Batch(t))]
    /\ UNCHANGED <<queueVars, config_cache, lifeVars, userVars, ghostVars>>
    /\ UNCHANGED <<to_process, remaining, idx, answers, taken_rc>>
    /\ UNCHANGED capVars
    /\ UNCHANGED auxVars

\* What the answers so far say about each entry of the batch
Observe(batch, o) ==
    /\ delivered' = [id \in DOMAIN delivered |->
                        IF id \in Elems(batch) /\ IsSuccess(o) THEN TRUE ELSE delivered[id]]
    /\ fails' = [id \in DOMAIN fails |->
                    IF id \in Elems(batch) /\ ~IsSuccess(o) /\ o # 429
                    THEN fails[id] + 1 ELSE fails[id]]

\* AfterAnswer that lets the transport's exception leave _flush_logs: the
\* worker's own handler catches it, stop() passes it on to its caller
AfterAnswerRaises(t, o) ==
    IF o = EXC THEN (IF t \in Workers THEN "loop" ELSE "ready")
    ELSE IF idx[t] + BATCH_POST_SIZE < Len(to_process[t]) THEN "fl_post" ELSE "fl_requeue"

\* Where the pass goes on after the answer o: every answer is handled
\* inside the loop body ("except Exception" for the transport's errors), so
\* the for loop takes the next batch, or ends
AfterAnswer(t, o) ==
    IF idx[t] + BATCH_POST_SIZE < Len(to_process[t]) THEN "fl_post" ELSE "fl_requeue"

\* The request of the current batch is answered with o (a status, or EXC
\* for an exception of the transport); then the for loop goes on
FlushResp(t, o) ==
    /\ pc[t] = "fl_wait"
    /\ IF o = 429
       THEN /\ remaining' = [remaining EXCEPT ![t] = RateLimited(@, Batch(t))]
            /\ UNCHANGED retry_count
       ELSE IF IsSuccess(o)
       THEN UNCHANGED <<remaining, retry_count>>
       ELSE /\ retry_count' = Bumped(retry_count, Batch(t))
            /\ remaining' = [remaining EXCEPT ![t] = @ \o Requeued(retry_count', Batch(t))]
    /\ idx' = [idx EXCEPT ![t] = @ + BATCH_POST_SIZE]
    /\ pc' = [pc EXCEPT ![t] = AfterAnswer(t, o)]
    /\ Observe(Batch(t), o)
    /\ answers' = [answers EXCEPT ![t] = Append(@, o)]
    /\ UNCHANGED <<log_queue, to_process, taken_rc, posts, config_cache, http_client,
                   lifeVars, userVars>>
    /\ UNCHANGED calls
    /\ UNCHANGED auxVars

\* The transport answers as it likes
FreeResp(t) == \E o \in Outcomes : FlushResp(t, o) /\ UNCHANGED server

\* The transport answers by its script, which then starts over
ScriptedResp(t) ==
    /\ server # <<>>
    /\ FlushResp(t, Head(server))
    /\ server' = Append(Tail(server), Head(server))

\* "Re-queue failed items", under self._queue_lock, and return
FlushRequeue(t) ==
    /\ pc[t] = "fl_requeue"
    /\ log_queue' = Prepend(remaining[t], log_queue)
    /\ pc' = [pc EXCEPT ![t] = FlushReturn(t)]
    /\ to_process' = [to_process EXCEPT ![t] = <<>>]
    /\ remaining' = [remaining EXCEPT ![t] = <<>>]
    /\ idx' = [idx EXCEPT ![t] = 0]
    /\ answers' = [answers EXCEPT ![t] = <<>>]
    /\ taken_rc' = [taken_rc EXCEPT ![t] = <<>>]
    /\ posts' = [posts EXCEPT ![t] = <<>>]
    /\ UNCHANGED <<retry_count, config_cache, http_client, lifeVars, userVars, ghostVars>>
    /\ UNCHANGED capVars
    /\ UNCHANGED auxVars

\* ---------------------------------------------------------- _sync_config
\* self.http_client.get(...): the handle is made on first use and the
\* request goes out
SyncRequest(w) ==
    /\ pc[w] = "sync_get"
    /\ pc' = [pc EXCEPT ![w] = "sync_wait"]
    /\ http_client' = "open"
    /\ UNCHANGED <<queueVars, config_cache, lifeVars, flushLocals, userVars, ghostVars>>
    /\ UNCHANGED capVars
    /\ UNCHANGED auxVars

\* AfterSync that lets the transport's exception end the thread
AfterSyncRaises(r) == IF r.status = EXC THEN "dead" ELSE "fl_take"

\* Where the worker goes on after _sync_config got the reply r: the pass
\* catches every exception and returns, and _flush_logs is called
AfterSync(r) == "fl_take"

\* The reply r arrives; the cache is merged under self._config_lock, every
\* exception is caught, and the worker goes on to _flush_logs
SyncResponse(w, r) ==
    /\ pc[w] = "sync_wait"
    /\ config_cache' = SyncApply(config_cache, r)
    /\ pc' = [pc EXCEPT ![w] = AfterSync(r)]
    /\ UNCHANGED <<queueVars, http_client, lifeVars, flushLocals, userVars, ghostVars>>
    /\ UNCHANGED capVars
    /\ UNCHANGED <<scope, stop_entry, readVars, locks>>

\* The server answers the GET as it likes
FreeSync(w) ==
    \E r \in SyncReplies : SyncResponse(w, r) /\ UNCHANGED <<config_reply, seen>>

\* ------------------------------------------------------ _background_worker
\* "while self._running": one more cycle, or the thread ends. The sleep
\* at the end of a cycle is the time the thread spends at "loop".
WorkerLoop(w) ==
    /\ pc[w] = "loop"
    /\ pc' = [pc EXCEPT ![w] = IF running THEN "sync_get" ELSE "dead"]
    /\ UNCHANGED <<queueVars, config_cache, http_client, lifeVars, flushLocals,
                   userVars, ghostVars>>
    /\ UNCHANGED capVars
    /\ UNCHANGED auxVars

\* ------------------------------------------------------------ start, stop
\* The slot the new threading.Thread takes
FreeSlot == CHOOSE w \in Workers : pc[w] = "dead" /\ \A v \in Workers : pc[v] = "dead" => w <= v

\* "if self._running: return"
AlreadyRunning == running

\* start(): nothing when already running; else set the flag, make the
\* thread and start it
Start ==
    /\ pc[Main] = "ready"
    /\ IF AlreadyRunning
       THEN UNCHANGED <<running, sync_thread, pc>>
       ELSE /\ \E w \in Workers : pc[w] = "dead"
            /\ running' = TRUE
            /\ sync_thread' = FreeSlot
            /\ pc' = [pc EXCEPT ![FreeSlot] = "loop"]
    /\ UNCHANGED <<queueVars, config_cache, http_client, stopping, flushLocals,
                   userVars, ghostVars>>
    /\ UNCHANGED capVars
    /\ UNCHANGED auxVars

\* stop(), first line: self._running = False
StopBegin ==
    /\ pc[Main] = "ready"
    /\ running' = FALSE
    /\ stopping' = TRUE
    /\ pc' = [pc EXCEPT ![Main] = "join"]
    /\ UNCHANGED <<queueVars, config_cache, http_client, sync_thread, flushLocals,
                   userVars, ghostVars>>
    /\ UNCHANGED capVars
    /\ UNCHANGED <<config_reply, seen, readVars, locks>>

\* stop() called as a statement
StopSignal == StopBegin /\ UNCHANGED <<scope, stop_entry>>

\* stop(): self._sync_thread.join(timeout=5.0) returns, because the thread
\* has ended or because the five seconds are over, and _flush_logs is
\* called
StopJoin ==
    /\ pc[Main] = "join"
    /\ pc' = [pc EXCEPT ![Main] = "fl_take"]
    /\ UNCHANGED <<queueVars, config_cache, http_client, lifeVars, flushLocals,
                   userVars, ghostVars>>
    /\ UNCHANGED capVars
    /\ UNCHANGED auxVars

\* Closed that leaves the handle open
ClosedNot(h) == h

\* self._http_client.close(); self._http_client = None (nothing to do when
\* there is no handle)
Closed(h) == "none"

\* stop(), after the flush: close the handle and forget it
StopEnd ==
    /\ pc[Main] = "close"
    /\ http_client' = Closed(http_client)
    /\ stopping' = FALSE
    /\ pc' = [pc EXCEPT ![Main] = "ready"]
    /\ UNCHANGED <<queueVars, config_cache, running, sync_thread, flushLocals,
                   userVars, ghostVars>>
    /\ UNCHANGED capVars
    /\ UNCHANGED <<stop_entry, config_reply, seen, readVars, locks>>

\* stop() called as a statement returns
StopClose == StopEnd /\ UNCHANGED scope

\* ------------------------------------------------- log().submit(), .invoke()
\* Appended that puts the entry at the front
AppendedAtFront(queue, entry) == <<entry>> \o queue

\* The queue after "self._client._log_queue.append(entry)"
Appended(queue, entry) == Append(queue, entry)

\* LogTask.submit(): a new QueuedLog (retry_count 0) is appended under
\* self._queue_lock
Submit ==
    /\ upc = "ready"
    /\ retry_count' = Append(retry_count, 0)
    /\ log_queue' = Appended(log_queue, Len(retry_count) + 1)
    /\ delivered' = Append(delivered, FALSE)
    /\ fails' = Append(fails, 0)
    /\ upc' = "submitted"
    /\ UNCHANGED <<config_cache, http_client, lifeVars, pc, flushLocals,
                   inv_outcome, inv_posts>>
    /\ UNCHANGED capVars
    /\ UNCHANGED auxVars

\* submit(), at most MaxSubmits times in one behaviour
UserSubmit == Len(retry_count) < MaxSubmits /\ Submit

\* The caller's next statement after submit(): it looks at the queue
UserCheck ==
    /\ upc = "submitted"
    /\ upc' = "ready"
    /\ UNCHANGED <<queueVars, config_cache, http_client, lifeVars, pc, flushLocals,
                   inv_outcome, inv_posts, ghostVars>>
    /\ UNCHANGED capVars
    /\ UNCHANGED auxVars

\* SendLogSync that sends the request a second time
SendLogSyncTwice(data) == << <<data>>, <<data>> >>

\* The request bodies _send_log_sync issues for the payload data
SendLogSync(data) == << <<data>> >>

\* LogTask.invoke() -> _send_log_sync: the handle is made on first use and
\* one request with json={"logs": [data]} goes out
UserInvoke ==
    /\ upc = "ready"
    /\ upc' = "inv_wait"
    /\ http_client' = "open"
    /\ inv_posts' = SendLogSync("data")
    /\ UNCHANGED <<queueVars, config_cache, lifeVars, pc, flushLocals, inv_outcome, ghostVars>>
    /\ UNCHANGED capVars
    /\ UNCHANGED auxVars

\* Whether http_client.post hands a response with this outcome back (the
\* transport raises for its own errors only, never for a status), so that
\* _send_log_sync, which does not look at the response, returns normally
PostReturns(o) == o # EXC

\* The pending invoke() is answered with o: it returns, or the exception
\* of the transport goes up to the caller
UserInvokeResp(o) ==
    /\ upc = "inv_wait"
    /\ inv_outcome' = o
    /\ upc' = IF PostReturns(o) THEN "inv_returned" ELSE "inv_raised"
    /\ UNCHANGED <<queueVars, config_cache, http_client, lifeVars, pc, flushLocals,
                   inv_posts, ghostVars>>
    /\ UNCHANGED capVars
    /\ UNCHANGED auxVars

\* The caller goes on after invoke()
UserResume ==
    /\ upc \in {"inv_returned", "inv_raised"}
    /\ upc' = "ready"
    /\ inv_outcome' = EXC
    /\ inv_posts' = <<>>
    /\ UNCHANGED <<queueVars, config_cache, http_client, lifeVars, pc, flushLocals, ghostVars>>
    /\ UNCHANGED capVars
    /\ UNCHANGED auxVars

\* ------------------------------------------------------- specification
\* One step of the worker thread in slot w
WorkerNext(w) ==
    \/ WorkerLoop(w)
    \/ SyncRequest(w)
    \/ FreeSync(w)
    \/ FlushTake(w)
    \/ FlushPost(w)
    \/ FreeResp(w)
    \/ FlushRequeue(w)

\* One step of stop() on the Main thread
StopNext ==
    \/ StopSignal
    \/ StopJoin
    \/ FlushTake(Main)
    \/ FlushPost(Main)
    \/ FreeResp(Main)
    \/ FlushRequeue(Main)
    \/ StopClose

SubmitNext ==
    \/ UserSubmit
    \/ UserCheck

InvokeNext ==
    \/ UserInvoke
    \/ \E o \in Outcomes : UserInvokeResp(o)
    \/ UserResume

\* Spec: the client as constructed (auto_start=True: __init__ has called
\* start()), its worker cycling, callers submitting, Main calling stop()
Next ==
    \/ \E w \in Workers : WorkerNext(w)
    \/ StopNext
    \/ SubmitNext

Spec == Init /\ [][Next]_vars

\* SpecInvoke: the same client, callers submitting and invoking
InvokeSpecNext ==
    \/ \E w \in Workers : WorkerNext(w)
    \/ SubmitNext
    \/ InvokeNext

SpecInvoke == Init /\ [][InvokeSpecNext]_vars

\* SpecLive: the worker is scheduled again and again (its sleep ends, the
\* transport answers or times out), callers submit
LiveNext ==
    \/ \E w \in Workers : WorkerNext(w)
    \/ SubmitNext

SpecLive == Init /\ [][LiveNext]_vars /\ WF_vars(\E w \in Workers : WorkerNext(w))

\* SpecLife: callers also call start() again after stop(); at most
\* LifeSubmits entries are submitted
LifeNext ==
    \/ Start
    \/ StopNext
    \/ \E w \in Workers : WorkerNext(w)
    \/ Len(retry_count) < LifeSubmits /\ UserSubmit
    \/ UserCheck

SpecLife == Init /\ [][LifeNext]_vars

\* SpecLifeFair: SpecLife in which every worker thread that can take a
\* step is scheduled again and again: its time.sleep ends, and a request
\* is answered or times out (httpx timeout 10 s)
SpecLifeFair ==
    Init /\ [][LifeNext]_vars /\ \A w \in Workers : WF_vars(WorkerNext(w))

\* ------------------------------------------------------------- SpecCap
\* The lengths of the queue a test sets up: around the sub-batch size and
\* around the cap
InitLens ==
    {n \in 1..MaxInit : n <= 2 \/ n \in {BATCH_POST_SIZE, BATCH_POST_SIZE + 1}
                               \/ n >= MAX_BATCH_SIZE - 1}

\* The scripts: every sequence of 1..MaxScript answers
Scripts ==
    UNION {[1..m -> Outcomes] : m \in 1..MaxScript}

\* DriftBalloon(api_key, auto_start=False) with db._log_queue set to n new
\* entries, as the tests of _flush_logs do, and a scripted transport
InitCap ==
    /\ \E n \in InitLens :
          /\ log_queue = [k \in 1..n |-> k]
          /\ retry_count = [k \in 1..n |-> 0]
          /\ delivered = [k \in 1..n |-> FALSE]
          /\ fails = [k \in 1..n |-> 0]
    /\ config_cache = EmptyCache
    /\ running = FALSE
    /\ sync_thread = NoThread
    /\ http_client = "none"
    /\ pc = [t \in Flushers |-> IF t = Main THEN "ready" ELSE "dead"]
    /\ stopping = FALSE
    /\ to_process = [t \in Flushers |-> <<>>]
    /\ remaining = [t \in Flushers |-> <<>>]
    /\ idx = [t \in Flushers |-> 0]
    /\ upc = "ready"
    /\ inv_outcome = EXC
    /\ inv_posts = <<>>
    /\ answers = [t \in Flushers |-> <<>>]
    /\ taken_rc = [t \in Flushers |-> <<>>]
    /\ posts = [t \in Flushers |-> <<>>]
    /\ server \in Scripts
    /\ calls = 0
    /\ AuxInit

\* db._flush_logs() called from the Main thread
FlushCall ==
    /\ pc[Main] = "ready"
    /\ ~stopping
    /\ calls < MaxCalls
    /\ calls' = calls + 1
    /\ pc' = [pc EXCEPT ![Main] = "fl_take"]
    /\ UNCHANGED <<queueVars, config_cache, http_client, lifeVars, flushLocals,
                   userVars, ghostVars, server>>
    /\ UNCHANGED auxVars

CapNext ==
    \/ FlushCall
    \/ FlushTake(Main)
    \/ FlushPost(Main)
    \/ ScriptedResp(Main)
    \/ FlushRequeue(Main)

SpecCap == InitCap /\ [][CapNext]_vars

\* ---------------------------------------------------------- SpecConfig
\* A JSON object without members
EmptyDict == [x \in {} |-> 0]

\* The per-prompt objects the server sends: each names some of the fields
ConfigData ==
    { EmptyDict,
      [active_prompt |-> "b"],
      [baseline_status |-> "ready", baseline_sample_count |-> 30],
      [min_baseline_samples |-> 50, drift_threshold |-> 8, length_drift_threshold |-> 20,
       auto_switch_enabled |-> FALSE, status |-> "paused"] }

ConfigNames == {"p1", "p2"}

\* "name": {...}
Item(name, d) == [name |-> name, is_dict |-> TRUE, data |-> d]

\* "name": null
BadItem(name) == [name |-> name, is_dict |-> FALSE, data |-> EmptyDict]

\* A 200 response whose body is {"prompts": {...}} with these items
Ok(prompts) == [status |-> 200, json_ok |-> TRUE, prompts |-> prompts]

\* The replies of GET /api/v1/config in SpecConfig: a transport error, a
\* 500, a body that is no JSON object, and 200 with no, one or two
\* per-prompt objects, one of which may be malformed
ConfigReplies ==
    { [status |-> EXC, json_ok |-> FALSE, prompts |-> <<>>],
      [status |-> 500, json_ok |-> TRUE, prompts |-> <<>>],
      [status |-> 200, json_ok |-> FALSE, prompts |-> <<>>],
      Ok(<<>>) }
    \cup {Ok(<<Item(n, d)>>) : n \in ConfigNames, d \in ConfigData}
    \cup {Ok(<<Item("p1", d), Item("p2", e)>>) : d \in ConfigData, e \in ConfigData}
    \cup {Ok(<<Item("p1", d), BadItem("p2")>>) : d \in ConfigData}
    \cup {Ok(<<Item("p2", d), BadItem("p1")>>) : d \in ConfigData}
    \cup {Ok(<<BadItem("p1"), Item("p2", d)>>) : d \in ConfigData}

\* get_active_prompt(name) on a cache nobody is writing
GetActivePrompt(cache, name) ==
    IF name \in DOMAIN cache THEN cache[name].active_prompt ELSE NotFound

\* get_baseline_status(name) on a cache nobody is writing
GetBaselineStatus(cache, name) ==
    IF name \in DOMAIN cache
    THEN <<cache[name].baseline_status, cache[name].baseline_sample_count>>
    ELSE <<"learning", 0>>

\* The Reader is inside get_baseline_status, holding a cached object
Reading == rpc \in {"bs_looked", "bs_status"} /\ r_config # NotFound

\* The server answers the GET with config_reply, and its next answer is
\* any of ConfigReplies
ScriptedSync(w) ==
    /\ SyncResponse(w, config_reply)
    /\ config_reply' \in ConfigReplies
    /\ seen' = IF Reading THEN seen \cup {GetBaselineStatus(config_cache', r_config)}
               ELSE seen

\* What every step of the Reader leaves alone
ReadFrame ==
    /\ UNCHANGED <<queueVars, config_cache, http_client, lifeVars, pc, flushLocals,
                   userVars, ghostVars>>
    /\ UNCHANGED capVars
    /\ UNCHANGED <<scope, stop_entry, config_reply, locks>>

\* get_baseline_status(name), "with self._config_lock:
\* config = self._config_cache.get(name)"
ReadBaselineLookup(name) ==
    /\ rpc = "idle"
    /\ rpc' = "bs_looked"
    /\ r_config' = IF name \in DOMAIN config_cache THEN name ELSE NotFound
    /\ seen' = {GetBaselineStatus(config_cache, name)}
    /\ UNCHANGED <<r_status, r_pair, r_active>>
    /\ ReadFrame

\* get_baseline_status, outside the lock: 'if not config: return
\* ("learning", 0)', else config.baseline_status is read
ReadBaselineStatus ==
    /\ rpc = "bs_looked"
    /\ IF r_config = NotFound
       THEN /\ r_pair' = <<"learning", 0>>
            /\ rpc' = "bs_returned"
            /\ UNCHANGED r_status
       ELSE /\ r_status' = config_cache[r_config].baseline_status
            /\ rpc' = "bs_status"
            /\ UNCHANGED r_pair
    /\ UNCHANGED <<r_config, r_active, seen>>
    /\ ReadFrame

\* get_baseline_status, outside the lock: config.baseline_sample_count is
\* read and the tuple returned
ReadBaselineCount ==
    /\ rpc = "bs_status"
    /\ r_pair' = <<r_status, config_cache[r_config].baseline_sample_count>>
    /\ rpc' = "bs_returned"
    /\ UNCHANGED <<r_config, r_status, r_active, seen>>
    /\ ReadFrame

\* get_active_prompt(name), "with self._config_lock:
\* config = self._config_cache.get(name)"
ReadActiveLookup(name) ==
    /\ rpc = "idle"
    /\ rpc' = "ap_looked"
    /\ r_config' = IF name \in DOMAIN config_cache THEN name ELSE NotFound
    /\ UNCHANGED <<r_status, r_pair, r_active, seen>>
    /\ ReadFrame

\* get_active_prompt, outside the lock: None, or config.active_prompt
ReadActiveReturn ==
    /\ rpc = "ap_looked"
    /\ r_active' = GetActivePrompt(config_cache, r_config)
    /\ rpc' = "ap_returned"
    /\ UNCHANGED <<r_config, r_status, r_pair, seen>>
    /\ ReadFrame

\* The caller goes on after the query
ReadResume ==
    /\ rpc \in {"bs_returned", "ap_returned"}
    /\ rpc' = "idle"
    /\ r_config' = NotFound
    /\ r_status' = ""
    /\ r_pair' = <<>>
    /\ r_active' = ""
    /\ seen' = {}
    /\ ReadFrame

ReadNext ==
    \/ \E name \in ConfigNames : ReadBaselineLookup(name)
    \/ ReadBaselineStatus
    \/ ReadBaselineCount
    \/ \E name \in ConfigNames : ReadActiveLookup(name)
    \/ ReadActiveReturn
    \/ ReadResume

\* SpecConfig: the client as constructed (auto_start=True), nothing ever
\* queued, the worker syncing against a server that answers with
\* ConfigReplies, a Reader thread calling the facade queries
ConfigNext ==
    \/ \E w \in Workers : WorkerLoop(w)
    \/ \E w \in Workers : SyncRequest(w)
    \/ \E w \in Workers : ScriptedSync(w)
    \/ \E w \in Workers : FlushTake(w)
    \/ ReadNext

SpecConfig == Init /\ [][ConfigNext]_vars

\* ----------------------------------------------------------- SpecScope
\* __enter__: "with DriftBalloon(...) as db:" enters its body
ScopeEnter ==
    /\ pc[Main] = "ready"
    /\ scope = "out"
    /\ scope' = "in"
    /\ UNCHANGED <<queueVars, config_cache, http_client, lifeVars, pc, flushLocals,
                   userVars, ghostVars>>
    /\ UNCHANGED capVars
    /\ UNCHANGED <<stop_entry, config_reply, seen, readVars, locks>>

\* The body ends, normally or by raising, and __exit__ calls self.stop()
ScopeExit(raised) ==
    /\ scope = "in"
    /\ StopBegin
    /\ scope' = IF raised THEN "exit_err" ELSE "exit_ok"
    /\ UNCHANGED stop_entry

\* What __exit__ returns: "return False", the exception is not suppressed
ExitReturn == FALSE

\* stop() returns inside __exit__, and __exit__ returns: the scope is left,
\* with the body's exception going up to the caller ("left_raised") unless
\* __exit__ returned true ("left_suppressed")
ScopeLeave ==
    /\ scope \in {"exit_ok", "exit_err"}
    /\ StopEnd
    /\ scope' = IF scope = "exit_ok" THEN "left_ok"
                ELSE IF ExitReturn THEN "left_suppressed" ELSE "left_raised"

\* SpecScope: the client as constructed (auto_start=True) used as a
\* context manager, its worker cycling, callers submitting at most
\* LifeSubmits entries
ScopeNext ==
    \/ ScopeEnter
    \/ \E raised \in BOOLEAN : ScopeExit(raised)
    \/ StopJoin
    \/ FlushTake(Main)
    \/ FlushPost(Main)
    \/ FreeResp(Main)
    \/ FlushRequeue(Main)
    \/ ScopeLeave
    \/ \E w \in Workers : WorkerNext(w)
    \/ Len(retry_count) < LifeSubmits /\ UserSubmit
    \/ UserCheck

SpecScope == Init /\ [][ScopeNext]_vars

\* ----------------------------------------------------------- SpecOrder
\* A caller's submit() that comes while Main is inside _flush_logs,
\* waiting for the answer to a request
LateSubmit ==
    /\ pc[Main] = "fl_wait"
    /\ Submit

\* SpecOrder: SpecCap, and one caller who submits one entry while a pass
\* is in flight
OrderNext ==
    \/ CapNext
    \/ LateSubmit

SpecOrder == InitCap /\ [][OrderNext]_vars

\* ------------------------------------------------------------ SpecLock
\* The same code with each "with lock:" block in two steps: the thread
\* gets the lock when nobody holds it, then runs the block and lets go.
\* A thread inside a block stands at "lk_take", "lk_requeue", "lk_merge",
\* "lk_submit" or "lk_ap"; a worker whose GET has been answered with a
\* usable body stands at "sync_got".

\* Entering "with lock:" as thread t
Locked(l, name, t) == [l EXCEPT ![name] = t]

\* Unlocked that keeps the lock: the block does not end here
UnlockedNot(l, name) == l

\* Leaving "with lock:"
Unlocked(l, name) == [l EXCEPT ![name] = Nobody]

\* _flush_logs, "with self._queue_lock:" is entered
LockTakeEnter(t) ==
    /\ pc[t] = "fl_take"
    /\ locks["queue"] = Nobody
    /\ locks' = Locked(locks, "queue", t)
    /\ pc' = [pc EXCEPT ![t] = "lk_take"]
    /\ UNCHANGED <<queueVars, config_cache, http_client, lifeVars, flushLocals,
                   userVars, ghostVars>>
    /\ UNCHANGED capVars
    /\ UNCHANGED sideVars

\* _flush_logs, inside the block: the two slices; the block is left, and
\* the pass returns at once when it took nothing
LockTake(t) ==
    /\ pc[t] = "lk_take"
    /\ log_queue' = Drop(log_queue, MAX_BATCH_SIZE)
    /\ locks' = Unlocked(locks, "queue")
    /\ IF Take(log_queue, MAX_BATCH_SIZE) = <<>>
       THEN /\ pc' = [pc EXCEPT ![t] = FlushReturn(t)]
            /\ UNCHANGED flushLocals
       ELSE /\ pc' = [pc EXCEPT ![t] = "fl_post"]
            /\ to_process' = [to_process EXCEPT ![t] = Take(log_queue, MAX_BATCH_SIZE)]
            /\ remaining' = [remaining EXCEPT ![t] = <<>>]
            /\ idx' = [idx EXCEPT ![t] = 0]
            /\ answers' = [answers EXCEPT ![t] = <<>>]
            /\ taken_rc' = [taken_rc EXCEPT ![t] =
                               [k \in 1..Len(to_process'[t]) |-> retry_count[to_process'[t][k]]]]
            /\ posts' = [posts EXCEPT ![t] = <<>>]
    /\ UNCHANGED <<retry_count, config_cache, http_client, lifeVars, userVars, ghostVars>>
    /\ UNCHANGED capVars
    /\ UNCHANGED sideVars

\* _flush_logs, "if remaining:" is false: the pass returns without taking
\* the lock
LockRequeueSkip(t) ==
    /\ remaining[t] = <<>>
    /\ FlushRequeue(t)

\* _flush_logs, "if remaining: with self._queue_lock:" is entered
LockRequeueEnter(t) ==
    /\ pc[t] = "fl_requeue"
    /\ remaining[t] # <<>>
    /\ locks["queue"] = Nobody
    /\ locks' = Locked(locks, "queue", t)
    /\ pc' = [pc EXCEPT ![t] = "lk_requeue"]
    /\ UNCHANGED <<queueVars, config_cache, http_client, lifeVars, flushLocals,
                   userVars, ghostVars>>
    /\ UNCHANGED capVars
    /\ UNCHANGED sideVars

\* _flush_logs, inside the block: self._log_queue = remaining +
\* self._log_queue; the block is left and the pass returns
LockRequeue(t) ==
    /\ pc[t] = "lk_requeue"
    /\ log_queue' = Prepend(remaining[t], log_queue)
    /\ locks' = Unlocked(locks, "queue")
    /\ pc' = [pc EXCEPT ![t] = FlushReturn(t)]
    /\ to_process' = [to_process EXCEPT ![t] = <<>>]
    /\ remaining' = [remaining EXCEPT ![t] = <<>>]
    /\ idx' = [idx EXCEPT ![t] = 0]
    /\ answers' = [answers EXCEPT ![t] = <<>>]
    /\ taken_rc' = [taken_rc EXCEPT ![t] = <<>>]
    /\ posts' = [posts EXCEPT ![t] = <<>>]
    /\ UNCHANGED <<retry_count, config_cache, http_client, lifeVars, userVars, ghostVars>>
    /\ UNCHANGED capVars
    /\ UNCHANGED sideVars

\* _sync_config: http_client.get returns or raises; config_reply is what
\* came. Only a 200 with a usable body leads to the block under
\* self._config_lock, everything else ends the pass
LockSyncArrive(w) ==
    /\ pc[w] = "sync_wait"
    /\ config_reply' \in SyncReplies
    /\ pc' = [pc EXCEPT ![w] = IF config_reply'.status = 200 /\ config_reply'.json_ok
                               THEN "sync_got" ELSE AfterSync(config_reply')]
    /\ UNCHANGED <<queueVars, config_cache, http_client, lifeVars, flushLocals,
                   userVars, ghostVars>>
    /\ UNCHANGED capVars
    /\ UNCHANGED <<scope, stop_entry, seen, readVars, locks>>

\* _sync_config, "with self._config_lock:" is entered
LockMergeEnter(w) ==
    /\ pc[w] = "sync_got"
    /\ locks["config"] = Nobody
    /\ locks' = Locked(locks, "config", w)
    /\ pc' = [pc EXCEPT ![w] = "lk_merge"]
    /\ UNCHANGED <<queueVars, config_cache, http_client, lifeVars, flushLocals,
                   userVars, ghostVars>>
    /\ UNCHANGED capVars
    /\ UNCHANGED sideVars

\* _sync_config, inside the block: the merge loop; the block is left (by
\* its end or by an exception, which is caught) and the pass returns
LockMerge(w) ==
    /\ pc[w] = "lk_merge"
    /\ config_cache' = SyncApply(config_cache, config_reply)
    /\ locks' = Unlocked(locks, "config")
    /\ pc' = [pc EXCEPT ![w] = AfterSync(config_reply)]
    /\ UNCHANGED <<queueVars, http_client, lifeVars, flushLocals, userVars, ghostVars>>
    /\ UNCHANGED capVars
    /\ UNCHANGED sideVars

\* LogTask.submit(): the entry is made and "with self._client._queue_lock:"
\* is entered; at most LifeSubmits entries are submitted
LockSubmitEnter ==
    /\ upc = "ready"
    /\ Len(retry_count) < LifeSubmits
    /\ locks["queue"] = Nobody
    /\ locks' = Locked(locks, "queue", User)
    /\ upc' = "lk_submit"
    /\ UNCHANGED <<queueVars, config_cache, http_client, lifeVars, pc, flushLocals,
                   inv_outcome, inv_posts, ghostVars>>
    /\ UNCHANGED capVars
    /\ UNCHANGED sideVars

\* LogTask.submit(), inside the block: the append; the block is left
LockSubmit ==
    /\ upc = "lk_submit"
    /\ retry_count' = Append(retry_count, 0)
    /\ log_queue' = Appended(log_queue, Len(retry_count) + 1)
    /\ delivered' = Append(delivered, FALSE)
    /\ fails' = Append(fails, 0)
    /\ locks' = Unlocked(locks, "queue")
    /\ upc' = "submitted"
    /\ UNCHANGED <<config_cache, http_client, lifeVars, pc, flushLocals,
                   inv_outcome, inv_posts>>
    /\ UNCHANGED capVars
    /\ UNCHANGED sideVars

\* get_active_prompt(name), "with self._config_lock:" is entered
LockActiveEnter(name) ==
    /\ rpc = "idle"
    /\ locks["config"] = Nobody
    /\ locks' = Locked(locks, "config", Reader)
    /\ rpc' = "lk_ap"
    /\ r_config' = name
    /\ UNCHANGED <<r_status, r_pair, r_active, seen>>
    /\ UNCHANGED <<queueVars, config_cache, http_client, lifeVars, pc, flushLocals,
                   userVars, ghostVars>>
    /\ UNCHANGED capVars
    /\ UNCHANGED <<scope, stop_entry, config_reply>>

\* get_active_prompt, inside the block: config =
\* self._config_cache.get(name); the block is left
LockActiveLookup ==
    /\ rpc = "lk_ap"
    /\ r_config' = IF r_config \in DOMAIN config_cache THEN r_config ELSE NotFound
    /\ locks' = Unlocked(locks, "config")
    /\ rpc' = "ap_looked"
    /\ UNCHANGED <<r_status, r_pair, r_active, seen>>
    /\ UNCHANGED <<queueVars, config_cache, http_client, lifeVars, pc, flushLocals,
                   userVars, ghostVars>>
    /\ UNCHANGED capVars
    /\ UNCHANGED <<scope, stop_entry, config_reply>>

\* One step of the worker thread in slot w, lock by lock
LockWorkerNext(w) ==
    \/ WorkerLoop(w)
    \/ SyncRequest(w)
    \/ LockSyncArrive(w)
    \/ LockMergeEnter(w)
    \/ LockMerge(w)
    \/ LockTakeEnter(w)
    \/ LockTake(w)
    \/ FlushPost(w)
    \/ FreeResp(w)
    \/ LockRequeueSkip(w)
    \/ LockRequeueEnter(w)
    \/ LockRequeue(w)

\* SpecLock: the client as constructed (auto_start=True), its worker
\* cycling, one caller submitting and invoking, another one asking for the
\* active prompt
LockNext ==
    \/ \E w \in Workers : LockWorkerNext(w)
    \/ LockSubmitEnter
    \/ LockSubmit
    \/ UserCheck
    \/ InvokeNext
    \/ \E name \in ConfigNames : LockActiveEnter(name)
    \/ LockActiveLookup
    \/ ReadActiveReturn
    \/ ReadResume

SpecLock == Init /\ [][LockNext]_vars

\* ------------------------------------------------------------ SpecStop
\* stop() called on the Main thread; stop_entry keeps the number of the
\* call and the queue and retry counts it found
StopCall ==
    /\ stop_entry.n < MaxStops
    /\ StopBegin
    /\ stop_entry' = [n |-> stop_entry.n + 1, queue |-> log_queue, rc |-> retry_count]
    /\ UNCHANGED scope

\* SpecStop: a client that was never started (auto_start=False), with a
\* queue set up as in the tests of _flush_logs and a scripted transport;
\* Main calls stop() again and again, nothing else runs
StopOnlyNext ==
    \/ StopCall
    \/ StopJoin
    \/ FlushTake(Main)
    \/ FlushPost(Main)
    \/ ScriptedResp(Main)
    \/ FlushRequeue(Main)
    \/ StopClose

SpecStop == InitCap /\ [][StopOnlyNext]_vars

\* =============================================================== claims
InQueue(id) == id \in Elems(log_queue)

CheckedOut(id) == \E t \in Flushers : id \in Elems(to_process[t])

\* Thread t leaves _flush_logs through "Re-queue failed items"
PassEnds(t) == pc[t] = "fl_requeue" /\ pc'[t] # "fl_requeue"

\* The answer to the sub-batch that held position k of to_process[t]
AnswerAt(t, k) == answers[t][((k - 1) \div BATCH_POST_SIZE) + 1]

IsFailure(o) == ~IsSuccess(o) /\ o # 429

\* C1: when a flush pass ends, every entry of a sub-batch that failed with
\* anything but a 429 (another status, or an exception of the transport)
\* has its retry_count one above what it was at checkout, and it is in
\* the queue if and only if that new count is below max_retries
C1_FailureStep ==
    \A t \in Flushers :
        PassEnds(t) =>
            \A k \in 1..Len(to_process[t]) :
                IsFailure(AnswerAt(t, k)) =>
                    LET id == to_process[t][k]
                    IN  /\ retry_count'[id] = taken_rc[t][k] + 1
                        /\ (id \in Elems(log_queue')) <=> (retry_count'[id] < max_retries)

C1_FailureRetriesOrDrops == [][C1_FailureStep]_vars

\* An entry that failed for the max_retries-th time is gone from the queue
C1_Witness ==
    \E id \in DOMAIN retry_count :
        /\ fails[id] = max_retries
        /\ retry_count[id] = max_retries
        /\ ~InQueue(id) /\ ~CheckedOut(id)

\* C2: when a flush pass ends, every entry of a sub-batch that was
\* answered 429 is in the queue with the retry_count it had at checkout
C2_RateLimitStep ==
    \A t \in Flushers :
        PassEnds(t) =>
            \A k \in 1..Len(to_process[t]) :
                AnswerAt(t, k) = 429 =>
                    LET id == to_process[t][k]
                    IN  /\ retry_count'[id] = taken_rc[t][k]
                        /\ id \in Elems(log_queue')

C2_RateLimitedRequeuedUnchanged == [][C2_RateLimitStep]_vars

\* A pass about to end whose request was answered 429, for an entry that
\* has failed before
C2_Witness ==
    \E t \in Flushers :
        /\ pc[t] = "fl_requeue"
        /\ answers[t] = <<429>>
        /\ remaining[t] = to_process[t]
        /\ \E k \in 1..Len(to_process[t]) : retry_count[to_process[t][k]] > 0

\* C7, as stated: whenever the caller looks at the queue after submit()
\* has returned, the entry it submitted is there
C7_SubmittedEntryPresent ==
    upc = "submitted" => InQueue(Len(retry_count))

\* C7, amended: submit() appends exactly one new entry with retry_count 0
\* at the tail of the queue and changes no other entry, and an entry
\* leaves the queue only by the checkout of a flush pass: the caller's
\* check finds it unless a flush pass has taken it in between
C7_SubmitStep ==
    /\ (upc = "ready" /\ upc' = "submitted") =>
           /\ Len(retry_count') = Len(retry_count) + 1
           /\ log_queue' = Append(log_queue, Len(retry_count'))
           /\ retry_count'[Len(retry_count')] = 0
           /\ \A id \in DOMAIN retry_count : retry_count'[id] = retry_count[id]
    /\ \A id \in DOMAIN retry_count :
           (InQueue(id) /\ id \notin Elems(log_queue')) =>
               \E t \in Flushers : pc[t] = "fl_take" /\ id \in Elems(to_process'[t])

C7_SubmitAppendsAtTail == [][C7_SubmitStep]_vars

\* submit() has just put a second entry behind a queued one, the loop running
C7_Witness ==
    /\ upc = "submitted"
    /\ running
    /\ Len(log_queue) = 2
    /\ log_queue[2] = Len(retry_count)

\* One step of invoke(): the request goes out, or its answer comes back
InvokeActs ==
    \/ upc = "ready" /\ upc' = "inv_wait"
    \/ upc = "inv_wait" /\ upc' \in {"inv_returned", "inv_raised"}

\* C8: invoke() issues exactly one request, whose batch holds exactly the
\* one payload, and no second one whatever the answer; its steps leave
\* the delivery queue, the entries' retry counts and the configuration
\* cache as they are
C8_InvokeStep ==
    InvokeActs =>
        /\ inv_posts' = << <<"data">> >>
        /\ UNCHANGED <<log_queue, retry_count, config_cache>>

C8_InvokeOneRequestNoQueue == [][C8_InvokeStep]_vars

\* invoke() has failed while an entry is queued and a config is cached
C8_Witness ==
    /\ upc = "inv_raised"
    /\ log_queue # <<>>
    /\ "p1" \in DOMAIN config_cache
    /\ Len(inv_posts) = 1

\* C9: invoke() returns normally only when the server accepted the send
\* (200/201/202); every other outcome is raised to the caller
C9_InvokeReturnsOnlyOnSuccess ==
    upc = "inv_returned" => IsSuccess(inv_outcome)

\* The worker threads that are alive and will go through another cycle:
\* not ended, and not about to see the flag false at the while test
Cycling(w) == pc[w] # "dead" /\ ~(pc[w] = "loop" /\ ~running)

\* C10: at most one Sync Loop task is alive and cycling at any time
C10_AtMostOneLoop ==
    Cardinality({w \in Workers : Cycling(w)}) <= 1

\* The identities submit() can give out
AllIds == 1..MaxSubmits

Submitted(id) == id \in DOMAIN retry_count

Delivered(id) == Submitted(id) /\ delivered[id]

\* The entry has left the queue and no flush pass holds it
Gone(id) == Submitted(id) /\ ~InQueue(id) /\ ~CheckedOut(id)

\* No request of a flush pass in progress has been answered 429
No429 == \A t \in Flushers : 429 \notin Elems(answers[t])

\* Every request of a flush pass so far was answered 200/201/202
AllLogsOk ==
    /\ \A id \in DOMAIN fails : fails[id] = 0
    /\ \A t \in Flushers : \A k \in 1..Len(answers[t]) : IsSuccess(answers[t][k])

\* C3, as stated: with the loop cycling, every submitted entry eventually
\* leaves the queue for good
C3_EveryEntryLeaves ==
    \A id \in AllIds : Submitted(id) ~> Gone(id)

\* C3, amended: an entry is sent with a failure other than 429 at most
\* max_retries times, an entry that has left the queue never comes back,
\* and if from some point on no request is answered 429 then every
\* submitted entry eventually leaves the queue (429 answers do not count
\* and can keep an entry queued for ever)
C3_BoundedRetriesUnless429 ==
    /\ [](\A id \in DOMAIN fails : fails[id] <= max_retries)
    /\ [][\A id \in AllIds : Gone(id) => Gone(id)']_vars
    /\ (<>[]No429) => (\A id \in AllIds : Submitted(id) ~> Gone(id))

\* An entry was dropped after max_retries failures while the loop runs
C3_Witness ==
    \E id \in DOMAIN retry_count :
        /\ running
        /\ Gone(id) /\ ~delivered[id]
        /\ fails[id] = max_retries

\* C5: with the loop running and every log request answered 200/201/202,
\* every entry in the queue is eventually delivered by the worker's flush
\* pass, and a delivered entry is never in the queue again
C5_BackgroundDelivers ==
    /\ []AllLogsOk => (\A id \in AllIds : InQueue(id) ~> Delivered(id))
    /\ [](\A id \in DOMAIN delivered : delivered[id] => ~InQueue(id))
    /\ [][\A id \in AllIds : Gone(id) => Gone(id)']_vars

\* Both entries were delivered by the worker, nothing ever failed
C5_Witness ==
    /\ running
    /\ AllLogsOk
    /\ Len(delivered) = MaxSubmits
    /\ \A id \in DOMAIN delivered : delivered[id] /\ Gone(id)

\* Every answer of the scripted transport is a failure other than 429
ScriptAllFail == \A k \in 1..Len(server) : IsFailure(server[k])

\* Main is between two calls of _flush_logs
AtRest == pc[Main] = "ready"

\* C4, as stated: from a queue of new entries (retry_count 0, max_retries
\* 5), with every send failing with a server error, all entries are in
\* the queue after each of the first 4 passes and none after the 5th
C4_AllFailFivePasses ==
    (ScriptAllFail /\ AtRest) =>
        /\ calls < max_retries => log_queue = [k \in 1..Len(retry_count) |-> k]
        /\ calls = max_retries => log_queue = <<>>

\* C4, amended: the same, for a queue of at most MAX_BATCH_SIZE (50)
\* entries
C4_AllFailFivePassesWithinCap ==
    (ScriptAllFail /\ AtRest /\ Len(retry_count) <= MAX_BATCH_SIZE) =>
        /\ calls < max_retries => log_queue = [k \in 1..Len(retry_count) |-> k]
        /\ calls = max_retries => log_queue = <<>>

\* 50 entries, 5 passes that all failed: every entry dropped
C4_Witness ==
    /\ ScriptAllFail /\ AtRest
    /\ Len(retry_count) = MAX_BATCH_SIZE
    /\ calls = max_retries
    /\ log_queue = <<>>
    /\ \A id \in DOMAIN fails : fails[id] = max_retries /\ ~delivered[id]

\* The last Len(tail) entries of s are tail
EndsWith(s, tail) ==
    /\ Len(tail) <= Len(s)
    /\ SubSeq(s, Len(s) - Len(tail) + 1, Len(s)) = tail

\* C6: a pass that finds more than 50 entries takes exactly the first 50
\* and leaves the others in the queue in their order; it sends all 50;
\* none of its steps changes the queue or the retry_count of an entry
\* left behind, and when it ends they are still the end of the queue
C6_CapStep ==
    /\ (pc[Main] = "fl_take" /\ pc'[Main] # "fl_take" /\ Len(log_queue) > MAX_BATCH_SIZE) =>
           /\ to_process'[Main] = SubSeq(log_queue, 1, MAX_BATCH_SIZE)
           /\ log_queue' = SubSeq(log_queue, MAX_BATCH_SIZE + 1, Len(log_queue))
    /\ (pc[Main] \in {"fl_post", "fl_wait"}) =>
           /\ Len(to_process[Main]) <= MAX_BATCH_SIZE
           /\ log_queue' = log_queue
           /\ \A id \in Elems(log_queue) : retry_count'[id] = retry_count[id]
    /\ PassEnds(Main) =>
           /\ Len(answers[Main]) * BATCH_POST_SIZE >= Len(to_process[Main])
           /\ EndsWith(log_queue', log_queue)
           /\ \A id \in Elems(log_queue) : retry_count'[id] = retry_count[id]

C6_AtMostFiftyPerPass == [][C6_CapStep]_vars

\* After one pass over 52 entries, all answered 202: the first 50 are
\* delivered, the last two are the queue, untouched
C6_Witness ==
    /\ AtRest /\ calls = 1
    /\ Len(retry_count) = MAX_BATCH_SIZE + 2
    /\ log_queue = <<MAX_BATCH_SIZE + 1, MAX_BATCH_SIZE + 2>>
    /\ \A id \in 1..MAX_BATCH_SIZE : delivered[id]
    /\ \A id \in Elems(log_queue) : retry_count[id] = 0 /\ ~delivered[id]

\* Every answer of the scripted transport is 200/201/202
ScriptAllOk == \A k \in 1..Len(server) : IsSuccess(server[k])

\* stop() number n has returned and Main has not called anything since
StopReturned(n) == AtRest /\ ~stopping /\ stop_entry.n >= n

\* C11, as stated: a stop() on a client that an earlier stop() has stopped
\* leaves the running flag false, the handle released, and the queue and
\* the retry counts as it found them
C11_SecondStopChangesNothing ==
    StopReturned(2) =>
        /\ ~running
        /\ http_client = "none"
        /\ log_queue = stop_entry.queue
        /\ retry_count = stop_entry.rc

\* C11, amended: such a stop(), with no other thread using the client,
\* leaves the running flag false and the handle released and runs one more
\* flush pass: an empty queue stays empty and no retry count changes; of
\* a queue that is not empty the first MAX_BATCH_SIZE entries are sent again,
\* each ends delivered, dropped or back in the queue with its retry count
\* as it was or one higher, and the entries behind them are untouched
C11_SecondStopFlushesAgain ==
    StopReturned(2) =>
        /\ ~running
        /\ http_client = "none"
        /\ sync_thread = NoThread
        /\ stop_entry.queue = <<>> => (log_queue = <<>> /\ retry_count = stop_entry.rc)
        /\ Elems(log_queue) \subseteq Elems(stop_entry.queue)
        /\ EndsWith(log_queue, Drop(stop_entry.queue, MAX_BATCH_SIZE))
        /\ \A id \in DOMAIN retry_count :
               /\ retry_count[id] \in {stop_entry.rc[id], stop_entry.rc[id] + 1}
               /\ id \notin Elems(Take(stop_entry.queue, MAX_BATCH_SIZE))
                      => retry_count[id] = stop_entry.rc[id]

\* The second stop() has sent the one queued entry again, and it failed again
C11_Witness ==
    /\ StopReturned(2)
    /\ stop_entry.n = 2
    /\ http_client = "none"
    /\ stop_entry.queue = <<1>>
    /\ stop_entry.rc = <<1>>
    /\ log_queue = <<1>>
    /\ retry_count = <<2>>

\* C12: when every send succeeds and nothing is submitted meanwhile, the
\* queue is empty when stop() returns, however many entries were queued
C12_StopEmptiesQueue ==
    (StopReturned(1) /\ stop_entry.n = 1 /\ ScriptAllOk) => log_queue = <<>>

\* C13: once the scope is left, however the body ended, the running flag
\* is false and there is no open transport handle, and the caller sees
\* the body's exception exactly when the body raised one
C13_ScopeExitStops ==
    /\ scope \in {"left_ok", "left_raised", "left_suppressed"} =>
           (~running /\ ~stopping /\ http_client = "none")
    /\ scope # "left_suppressed"

\* The field names of a PromptConfig besides name
Fields ==
    {"active_prompt", "baseline_status", "baseline_sample_count", "min_baseline_samples",
     "drift_threshold", "length_drift_threshold", "auto_switch_enabled", "status"}

\* The pass that gets reply r fails: no 200, a body that is no JSON
\* object, or a per-prompt object that is none
SyncFails(r) ==
    \/ r.status # 200
    \/ ~r.json_ok
    \/ \E k \in 1..Len(r.prompts) : ~r.prompts[k].is_dict

\* Worker w ends its Config Sync pass with this step
SyncEnds(w) == pc[w] = "sync_wait" /\ pc'[w] # "sync_wait"

\* C14: a Config Sync pass that fails (no 200, a transport error, a
\* malformed body, or a malformed per-prompt object after well-formed
\* ones) leaves the cache exactly as it was, and the worker goes on
C14_FailStep ==
    \A w \in Workers :
        (SyncEnds(w) /\ SyncFails(config_reply)) =>
            /\ config_cache' = config_cache
            /\ pc'[w] = "fl_take"

C14_FailedSyncKeepsCache == [][C14_FailStep]_vars

\* C15: after a successful pass, for every name of the response that was
\* cached before, each field the per-prompt object has holds the value
\* sent and each field it lacks holds the value cached before; every
\* cached name the response does not mention is unchanged
C15_MergeStep ==
    \A w \in Workers :
        (SyncEnds(w) /\ ~SyncFails(config_reply)) =>
            LET sent == config_reply.prompts
                names == {sent[k].name : k \in 1..Len(sent)}
            IN  /\ \A k \in 1..Len(sent) :
                       sent[k].name \in DOMAIN config_cache =>
                           \A f \in Fields :
                               config_cache'[sent[k].name][f] =
                                   IF f \in DOMAIN sent[k].data
                                   THEN sent[k].data[f]
                                   ELSE config_cache[sent[k].name][f]
                /\ \A n \in DOMAIN config_cache \ names : config_cache'[n] = config_cache[n]
                /\ DOMAIN config_cache \subseteq DOMAIN config_cache'

C15_SyncMerges == [][C15_MergeStep]_vars

\* p1 holds fields from three different responses, none reset
C15_Witness ==
    /\ "p1" \in DOMAIN config_cache
    /\ config_cache["p1"].active_prompt = "b"
    /\ config_cache["p1"].baseline_status = "ready"
    /\ config_cache["p1"].baseline_sample_count = 30
    /\ config_cache["p1"].status = "paused"
    /\ config_cache["p1"].min_baseline_samples = 50

\* The response {"prompts": {"p1": {"active_prompt": "b"}}}
ReplyP1b == Ok(<<Item("p1", [active_prompt |-> "b"])>>)

\* The defaults as documented: the field defaults of the PromptConfig type
Default(f) == PromptConfig("")[f]

\* C16, the sync step: a successful response that mentions a name not
\* cached inserts a PromptConfig of that name whose fields are the ones
\* sent, the others at their documented defaults; with an empty cache and
\* the response p1: active_prompt = b, get_active_prompt(p1) is b and
\* get_baseline_status(p1) is (learning, 0)
C16_InsertStep ==
    \A w \in Workers :
        (SyncEnds(w) /\ ~SyncFails(config_reply)) =>
            LET sent == config_reply.prompts
            IN  /\ \A k \in 1..Len(sent) :
                       sent[k].name \notin DOMAIN config_cache =>
                           /\ sent[k].name \in DOMAIN config_cache'
                           /\ config_cache'[sent[k].name].name = sent[k].name
                           /\ \A f \in Fields :
                                  config_cache'[sent[k].name][f] =
                                      IF f \in DOMAIN sent[k].data
                                      THEN sent[k].data[f]
                                      ELSE Default(f)
                /\ (config_cache = EmptyCache /\ config_reply = ReplyP1b) =>
                       /\ GetActivePrompt(config_cache', "p1") = "b"
                       /\ GetBaselineStatus(config_cache', "p1") = <<"learning", 0>>

\* C16, the queries: for a name that no sync has mentioned (it is not in
\* the cache) get_active_prompt returns the not-found sentinel and
\* get_baseline_status returns (learning, 0)
C16_NotFoundReads ==
    /\ (rpc = "ap_returned" /\ r_config = NotFound) => r_active = NotFound
    /\ (rpc = "bs_returned" /\ r_config = NotFound) => r_pair = <<"learning", 0>>
    /\ \A n \in ConfigNames :
           n \notin DOMAIN config_cache =>
               /\ GetActivePrompt(config_cache, n) = NotFound
               /\ GetBaselineStatus(config_cache, n) = <<"learning", 0>>

\* C16: both parts
C16_NewPromptOverDefaults == []C16_NotFoundReads /\ [][C16_InsertStep]_vars

\* The scenario: the cache holds p1 alone, as inserted from the response
\* p1: active_prompt = b, and get_active_prompt has returned b
C16_Witness ==
    /\ DOMAIN config_cache = {"p1"}
    /\ config_cache["p1"] = [PromptConfig("p1") EXCEPT !.active_prompt = "b"]
    /\ rpc = "ap_returned"
    /\ r_config = "p1"
    /\ r_active = "b"

\* C20: the pair get_baseline_status returns is the pair one cache state
\* held between the lookup and the return
C20_PairFromOneState ==
    rpc = "bs_returned" => r_pair \in seen

\* s has no entry twice
NoDuplicates(s) == \A i, j \in 1..Len(s) : i # j => s[i] # s[j]

\* C17: no entry is twice in the queue, none is in the queue while a flush
\* pass has it checked out, and none is checked out by two passes (or
\* twice by one)
C17_CheckedOutOnce ==
    /\ NoDuplicates(log_queue)
    /\ \A t \in Flushers :
           /\ NoDuplicates(to_process[t])
           /\ Elems(to_process[t]) \cap Elems(log_queue) = {}
           /\ Elems(remaining[t]) \subseteq Elems(to_process[t])
    /\ \A t, u \in Flushers :
           t # u => Elems(to_process[t]) \cap Elems(to_process[u]) = {}

\* stop()'s final flush and the worker's flush are both waiting for an
\* answer, each with an entry checked out
C17_Witness ==
    /\ pc[Main] = "fl_wait"
    /\ to_process[Main] # <<>>
    /\ \E w \in Workers : pc[w] = "fl_wait" /\ to_process[w] # <<>>

\* a[i..] can be read off b[j..] from left to right, skipping entries of b
RECURSIVE InOrderFrom(_, _, _, _)
InOrderFrom(a, i, b, j) ==
    IF i > Len(a) THEN TRUE
    ELSE IF j > Len(b) THEN FALSE
    ELSE IF a[i] = b[j] THEN InOrderFrom(a, i + 1, b, j + 1)
    ELSE InOrderFrom(a, i, b, j + 1)

\* C18: when a pass ends, the queue is the entries it re-queues, in the
\* order they had when checked out, followed by the queue as it was: the
\* entries left beyond the cap and those appended meanwhile
C18_PrependStep ==
    \A t \in Flushers :
        PassEnds(t) =>
            /\ EndsWith(log_queue', log_queue)
            /\ LET back == SubSeq(log_queue', 1, Len(log_queue') - Len(log_queue))
               IN  /\ back = remaining[t]
                   /\ InOrderFrom(back, 1, to_process[t], 1)

C18_RequeuedGoFirst == [][C18_PrependStep]_vars

\* A pass over the first 50 of 51 entries has ended, answered 429 and 500
\* in turn, while entry 52 was submitted: the 50 are back at the front in
\* their order, ahead of 51 and 52
C18_Witness ==
    /\ AtRest /\ calls = 1
    /\ server \in {<<429, 500>>, <<500, 429>>}
    /\ Len(retry_count) = MAX_BATCH_SIZE + 2
    /\ upc = "submitted"
    /\ log_queue = [k \in 1..(MAX_BATCH_SIZE + 2) |-> k]

\* C19: once stop() has returned there is no open transport handle, and
\* a request that is waiting for its answer is on an open handle
C19_HandleReleasedOnce ==
    /\ (~running /\ ~stopping) => http_client = "none"
    /\ (\E t \in Flushers : pc[t] \in {"sync_wait", "fl_wait"}) => http_client = "open"

\* C21: after any stop() call, every Sync Loop thread that was alive at
\* that moment eventually exits, whatever facade calls follow (a later
\* start() included)
C21_StoppedLoopExits ==
    \A w \in Workers : (pc[Main] = "join" /\ pc[w] # "dead") ~> (pc[w] = "dead")

\* The positions of a thread inside _flush_logs
InFlush == {"fl_take", "fl_post", "fl_wait", "fl_requeue"}

\* C22: a worker thread ends only at its while test with the flag false;
\* with the flag true it starts the next cycle there; whatever the Config
\* Sync pass got, the Flush pass follows; and whatever the Flush pass got,
\* the thread is back at the while test
C22_LoopStep ==
    \A w \in Workers :
        /\ (pc[w] # "dead" /\ pc'[w] = "dead") => (pc[w] = "loop" /\ ~running)
        /\ (pc[w] = "loop" /\ running /\ pc'[w] # "loop") => pc'[w] = "sync_get"
        /\ (pc[w] = "sync_get" /\ pc'[w] # "sync_get") => pc'[w] = "sync_wait"
        /\ (pc[w] = "sync_wait" /\ pc'[w] # "sync_wait") => pc'[w] = "fl_take"
        /\ (pc[w] \in InFlush /\ pc'[w] \notin InFlush) => pc'[w] = "loop"

C22_LoopResilient == [][C22_LoopStep]_vars

\* The flag is true and a worker is in the Config Sync pass of a new cycle
\* after a Flush pass in which a request failed
C22_Witness ==
    /\ running
    /\ \E w \in Workers : pc[w] = "sync_wait"
    /\ \E id \in DOMAIN fails : fails[id] >= 1

\* C23: whatever a request of a flush pass is answered with, the pass goes
\* on to its next batch or to its end; a pass is left only from its two
\* return statements, back to the worker's loop or, in stop(), on to the
\* release of the transport handle, which stop() then carries out
C23_FlushStep ==
    /\ \A t \in Flushers :
          /\ (pc[t] = "fl_wait" /\ pc'[t] # "fl_wait") => pc'[t] \in {"fl_post", "fl_requeue"}
          /\ (pc[t] \in InFlush /\ pc'[t] \notin InFlush) =>
                 /\ pc[t] \in {"fl_take", "fl_requeue"}
                 /\ pc'[t] = IF t \in Workers THEN "loop" ELSE "close"
    /\ (pc[Main] = "close" /\ pc'[Main] # "close") =>
           (pc'[Main] = "ready" /\ http_client' = "none" /\ ~stopping')
    /\ (stopping /\ ~stopping') => pc[Main] = "close"

C23_FlushNeverRaises == [][C23_FlushStep]_vars

\* stop() has flushed an entry whose request failed and has returned with
\* the handle released, and a worker's request that was in flight when the
\* handle was closed has been answered with an exception: the worker's
\* pass is at its end, about to re-queue
C23_Witness ==
    /\ pc[Main] = "ready" /\ ~running /\ ~stopping /\ http_client = "none"
    /\ \E w \in Workers : pc[w] = "fl_requeue" /\ answers[w] = <<EXC>>
    /\ \E id \in DOMAIN fails : id \in Elems(log_queue) /\ fails[id] >= 1

\* The request bodies one after the other
RECURSIVE Flatten(_)
Flatten(bodies) == IF bodies = <<>> THEN <<>> ELSE Head(bodies) \o Flatten(Tail(bodies))

\* ceil(n / BATCH_POST_SIZE)
SubBatches(n) == (n + BATCH_POST_SIZE - 1) \div BATCH_POST_SIZE

\* C25: the bodies of the requests of a pass are consecutive slices of the
\* checked-out entries, in their order, each of BATCH_POST_SIZE entries but
\* possibly the last; every request issued so far but the current one has
\* been answered, and when the loop has ended, whatever the answers were,
\* ceil(n / BATCH_POST_SIZE) requests have gone out whose bodies together
\* are the checked-out entries
C25_SubBatchesPartition ==
    \A t \in Flushers :
        LET n == Len(to_process[t])
            m == Len(posts[t])
            all == Flatten(posts[t])
        IN  /\ Len(all) <= n /\ all = SubSeq(to_process[t], 1, Len(all))
            /\ \A k \in 1..m : /\ Len(posts[t][k]) \in 1..BATCH_POST_SIZE
                               /\ k < m => Len(posts[t][k]) = BATCH_POST_SIZE
            /\ Len(answers[t]) = IF pc[t] = "fl_wait" THEN m - 1 ELSE m
            /\ pc[t] = "fl_post" => Len(all) < n
            /\ pc[t] = "fl_requeue" => (m = SubBatches(n) /\ all = to_process[t])

\* A pass over 49 entries has sent its five requests, the last with nine
\* entries, although the first one failed
C25_Witness ==
    /\ pc[Main] = "fl_requeue"
    /\ Len(to_process[Main]) = MAX_BATCH_SIZE - 1
    /\ Len(posts[Main]) = 5
    /\ Len(posts[Main][5]) = BATCH_POST_SIZE - 1
    /\ answers[Main][1] = 500

\* The cache holds each config under its own name
KeyedByName == \A n \in DOMAIN config_cache : config_cache[n].name = n

\* No step takes a name out of the cache
C26_KeepStep == DOMAIN config_cache \subseteq DOMAIN config_cache'

\* C26: the set of cached prompt names never shrinks, whatever the sync
\* passes get and whatever facade queries run, and the config cached under
\* a name carries that name
C26_CacheNeverLoses == []KeyedByName /\ [][C26_KeepStep]_vars

\* Both names are cached after several sync passes: p1 was updated by
\* three responses, p2 is as first inserted, and the worker has just
\* ended a pass
C26_Witness ==
    /\ DOMAIN config_cache = ConfigNames
    /\ config_cache["p1"].active_prompt = "b"
    /\ config_cache["p1"].baseline_status = "ready"
    /\ config_cache["p1"].status = "paused"
    /\ config_cache["p2"] = PromptConfig("p2")
    /\ \E w \in Workers : pc[w] = "fl_take"

\* A flush pass in flight holds the entry: checked out and its request not
\* answered yet, or put aside by the pass for re-queueing
Held(id) ==
    \E t \in Flushers :
        \/ \E k \in (idx[t] + 1)..Len(to_process[t]) : to_process[t][k] = id
        \/ id \in Elems(remaining[t])

\* The entry has been given up: its retry_count has reached max_retries
Dropped(id) == retry_count[id] >= max_retries

\* C27: every entry submit() has appended is in exactly one place: in the
\* queue with retry_count < max_retries, held by a flush pass in flight,
\* delivered, or dropped with retry_count >= max_retries
C27_NoEntryLost ==
    \A id \in DOMAIN retry_count :
        /\ InQueue(id) \/ Held(id) \/ delivered[id] \/ Dropped(id)
        /\ InQueue(id) => (~Dropped(id) /\ ~Held(id) /\ ~delivered[id])
        /\ Held(id) => (~delivered[id] /\ ~Dropped(id))
        /\ delivered[id] => ~Dropped(id)

\* Entry 2 was submitted while a worker's pass held entry 1, whose request
\* had failed: 1 is put aside for re-queueing, 2 is in the queue
C27_Witness ==
    /\ Len(retry_count) = 2
    /\ log_queue = <<2>>
    /\ \E w \in Workers : pc[w] = "fl_requeue" /\ remaining[w] = <<1>>
    /\ retry_count[1] = 1

\* Entries are numbered as submit() appended them: s is in submission order
InSubmissionOrder(s) == \A k \in 1..(Len(s) - 1) : s[k] < s[k + 1]

\* At most one thread is inside _flush_logs
NoOverlap == Cardinality({t \in Flushers : pc[t] \in InFlush}) <= 1

\* C28: with flush passes that never overlap, the queue is in submission
\* order in every state, and so is what a pass has put aside followed by
\* the queue
C28_QueueInSubmissionOrder ==
    /\ NoOverlap
    /\ InSubmissionOrder(log_queue)
    /\ \A t \in Flushers : InSubmissionOrder(remaining[t] \o log_queue)

\* Entry 1 is back at the front after a failed request, ahead of entry 2,
\* which was submitted after 1 had been checked out
C28_Witness ==
    /\ log_queue = <<1, 2>>
    /\ retry_count[1] >= 1 /\ retry_count[2] = 0
    /\ \E w \in Workers : pc[w] = "loop"

\* The thread has a request in flight: a worker's GET or POST, or the
\* POST of a caller's invoke()
InFlight(t) ==
    IF t \in Flushers THEN pc[t] \in {"sync_wait", "fl_wait"}
    ELSE t = User /\ upc = "inv_wait"

\* The thread is inside the block of this lock
InBlock(t, name) ==
    IF name = "queue"
    THEN IF t \in Flushers THEN pc[t] \in {"lk_take", "lk_requeue"}
         ELSE t = User /\ upc = "lk_submit"
    ELSE IF t \in Workers THEN pc[t] = "lk_merge"
         ELSE t = Reader /\ rpc = "lk_ap"

\* C24: a thread with a request in flight holds neither lock; a lock that
\* is held is held by a thread inside that lock's block, where no request
\* is made, so that nobody waits for a lock through a round trip
C24_NoLockDuringIO ==
    /\ \A t \in Flushers \cup {User} :
          InFlight(t) => \A name \in LockNames : locks[name] # t
    /\ \A name \in LockNames :
          locks[name] # Nobody => (InBlock(locks[name], name) /\ ~InFlight(locks[name]))

\* While a request of the worker is in flight, submit() is inside the
\* block of the queue lock and get_active_prompt inside that of the cache
\* lock
C24_Witness ==
    /\ \E w \in Workers : InFlight(w)
    /\ locks["queue"] = User
    /\ locks["config"] = Reader

====
